---- MODULE Spec2Model ----
(***************************************************************************)
(* Model of the Gmail MCP server of src/index.js: the CallTool request     *)
(* handler, the ten tools it dispatches to, and the template pipeline of   *)
(* send_template_email (file lookup, subject extraction, Mustache          *)
(* rendering, hand-over to sendEmail).                                     *)
(*                                                                         *)
(* A JavaScript string is a sequence of one-character strings, so that     *)
(* the regular expression, String.replace, String.trim, path.join and      *)
(* Mustache.render are computed character by character.                    *)
(***************************************************************************)
EXTENDS Integers, Sequences, FiniteSets, Bags, TLC

VARIABLES env, fs, pending, last

vars == <<env, fs, pending, last>>

\* ------------------------------------------------------------- bounds
\* Number of pieces a template text is concatenated from.
MaxPieces == 4
\* Number of tool invocations suspended at an await at the same time.
MaxPending == 2

\* ------------------------------------------------------------ strings
Min(S) == CHOOSE x \in S : \A y \in S : x <= y

Max(S) == CHOOSE x \in S : \A y \in S : y <= x

\* The characters \s matches, among those the model's texts can hold.
WhiteSpace == {" ", "\t", "\n", "\r"}

\* The characters before which $ and after which ^ match under the m flag.
LineTerminators == {"\n", "\r"}

\* The literal "Subject:" of the regular expression.
Keyword == <<"S", "u", "b", "j", "e", "c", "t", ":">>

NoSubject == <<"N", "o", " ", "S", "u", "b", "j", "e", "c", "t">>

\* s has p as a substring starting at index i.
StartsWithAt(s, i, p) ==
  /\ i >= 1
  /\ i + Len(p) - 1 <= Len(s)
  /\ \A k \in 1..Len(p) : s[i + k - 1] = p[k]

\* String.prototype.indexOf, 1-based; 0 when p does not occur.
IndexOf(s, p) ==
  LET I == {i \in 1..(Len(s) + 1 - Len(p)) : StartsWithAt(s, i, p)}
  IN IF I = {} THEN 0 ELSE Min(I)

\* String.prototype.endsWith.
EndsWith(s, p) == Len(p) <= Len(s) /\ StartsWithAt(s, Len(s) - Len(p) + 1, p)

\* String.prototype.trim.
Trim(s) ==
  LET N == {i \in 1..Len(s) : s[i] \notin WhiteSpace}
  IN IF N = {} THEN <<>> ELSE SubSeq(s, Min(N), Max(N))

\* The first index >= i that holds no white space (Len(s) + 1 at the end).
SkipWhite(s, i) ==
  Min({j \in i..(Len(s) + 1) : j = Len(s) + 1 \/ s[j] \notin WhiteSpace})

\* The first index >= i that holds a line terminator (Len(s) + 1 at the end).
LineEnd(s, i) ==
  Min({j \in i..(Len(s) + 1) : j = Len(s) + 1 \/ s[j] \in LineTerminators})

\* String.prototype.replace(pattern, replacement) with a string pattern:
\* the first occurrence of the pattern, wherever it is, is replaced.
StringReplace(s, pat, rep) ==
  LET i == IndexOf(s, pat)
  IN IF i = 0 THEN s
     ELSE SubSeq(s, 1, i - 1) \o rep \o SubSeq(s, i + Len(pat), Len(s))

\* ------------------------------------------- subject extraction (parse)
\* raw.match(/^Subject:\s*(.*)$/m): the leftmost line start followed by the
\* keyword; \s* is greedy and runs over line terminators, (.*) then takes the
\* rest of the line it stopped on.
SubjectMatch(raw) ==
  LET S == {i \in 1..Len(raw) :
              /\ i = 1 \/ raw[i - 1] \in LineTerminators
              /\ StartsWithAt(raw, i, Keyword)}
  IN IF S = {} THEN [found |-> FALSE, whole |-> <<>>, group |-> <<>>]
     ELSE LET i == Min(S)
              j == SkipWhite(raw, i + Len(Keyword))
              k == LineEnd(raw, j)
          IN [found |-> TRUE,
              whole |-> SubSeq(raw, i, k - 1),
              group |-> SubSeq(raw, j, k - 1)]

\* A fallbackSubject argument: left out (undefined) or a string.
NoFallback == [supplied |-> FALSE, value |-> <<>>]

\* JavaScript truthiness of the fallbackSubject argument.
Truthy(f) == f.supplied /\ f.value # <<>>

\* let subject = fallbackSubject || 'No Subject'
DefaultSubject(fallbackSubject) ==
  IF Truthy(fallbackSubject) THEN fallbackSubject.value ELSE NoSubject

\* ParseTemplate, had it trimmed the text that has no subject line too.
ParseTemplateTrimmed(raw, fallbackSubject) ==
  LET m == SubjectMatch(raw)
  IN IF m.found
     THEN [subject |-> Trim(m.group),
           body |-> Trim(StringReplace(raw, m.whole, <<>>))]
     ELSE [subject |-> DefaultSubject(fallbackSubject), body |-> Trim(raw)]

\* The subject and body send_template_email renders.
ParseTemplate(raw, fallbackSubject) ==
  LET m == SubjectMatch(raw)
  IN IF m.found
     THEN [subject |-> Trim(m.group),
           body |-> Trim(StringReplace(raw, m.whole, <<>>))]
     ELSE [subject |-> DefaultSubject(fallbackSubject), body |-> raw]

\* ------------------------------------------------------ Mustache.render
\* Mustache's escapeHtml: the entity of a character of its entityMap (the
\* quote characters, which it maps too, occur in no value of the model).
Entity(c) ==
  CASE c = "&" -> <<"&", "a", "m", "p", ";">>
    [] c = "<" -> <<"&", "l", "t", ";">>
    [] c = ">" -> <<"&", "g", "t", ";">>
    [] c = "/" -> <<"&", "#", "x", "2", "F", ";">>
    [] c = "=" -> <<"&", "#", "x", "3", "D", ";">>
    [] OTHER -> <<c>>

RECURSIVE EscapeHtml(_)
EscapeHtml(s) == IF s = <<>> THEN <<>> ELSE Entity(Head(s)) \o EscapeHtml(Tail(s))

\* Context.lookup of a name without dots: a missing key renders as "".
Lookup(view, name) == IF name \in DOMAIN view THEN view[name] ELSE <<>>

OpenTag == <<"{", "{">>

CloseTag == <<"}", "}">>

CloseCurly == <<"}", "}", "}">>

\* The parse and render of Mustache.render(template, view) from index i on, for
\* templates whose tags are {{name}} and {{{name}}} (the other tag characters,
\* # ^ / > & = !, and dotted names occur in no text of the model):
\* text up to the next "{{" is copied; "{{\s*" opens a tag, a following "{"
\* makes it an unescaped one; the name runs to the leftmost match of \s*}} (or
\* \s*}}}); a tag that is never closed throws "Unclosed tag".
RECURSIVE RenderFrom(_, _, _)
RenderFrom(s, i, view) ==
  LET O == {j \in i..(Len(s) - 1) : StartsWithAt(s, j, OpenTag)}
  IN IF O = {} THEN [ok |-> TRUE, out |-> SubSeq(s, i, Len(s))]
     ELSE
       LET j == Min(O)
           p1 == SkipWhite(s, j + Len(OpenTag))
           curly == p1 <= Len(s) /\ s[p1] = "{"
           p3 == SkipWhite(s, IF curly THEN p1 + 1 ELSE p1)
           close == IF curly THEN CloseCurly ELSE CloseTag
           K == {k \in p3..Len(s) : StartsWithAt(s, SkipWhite(s, k), close)}
       IN IF K = {} THEN [ok |-> FALSE, out |-> <<>>]
          ELSE
            LET k == Min(K)
                value == Lookup(view, SubSeq(s, p3, k - 1))
                rest == RenderFrom(s, SkipWhite(s, k) + Len(close), view)
            IN [ok |-> rest.ok,
                out |-> IF rest.ok
                        THEN SubSeq(s, i, j - 1)
                             \o (IF curly THEN value ELSE EscapeHtml(value))
                             \o rest.out
                        ELSE <<>>]

MustacheRender(template, view) == RenderFrom(template, 1, view)

\* ------------------------------------------------------ paths and files
\* A path is the sequence of its segments, each a string.
Slash == "/"

DotTxt == <<".", "t", "x", "t">>

\* s split at every "/".
RECURSIVE Split(_)
Split(s) ==
  LET I == {i \in 1..Len(s) : s[i] = Slash}
  IN IF I = {} THEN <<s>>
     ELSE <<SubSeq(s, 1, Min(I) - 1)>> \o Split(SubSeq(s, Min(I) + 1, Len(s)))

\* path.normalize of an absolute path: "" and "." are dropped, ".." leaves the
\* directory it follows (and stays at the root).
RECURSIVE Normalize(_, _)
Normalize(stack, segs) ==
  IF segs = <<>> THEN stack
  ELSE LET h == Head(segs)
       IN IF h = <<>> \/ h = <<".">> THEN Normalize(stack, Tail(segs))
          ELSE IF h = <<".", ".">>
          THEN Normalize(IF stack = <<>> THEN <<>>
                         ELSE SubSeq(stack, 1, Len(stack) - 1), Tail(segs))
          ELSE Normalize(Append(stack, h), Tail(segs))

\* path.join(dir, rel) for an absolute, normalized dir.
PathJoin(dir, rel) == Normalize(dir, Split(rel))

\* path.dirname(new URL(import.meta.url).pathname): where index.js lives.
ScriptDir == <<<<"a", "p", "p">>>>

templateDir == PathJoin(ScriptDir, <<"t", "e", "m", "p", "l", "a", "t", "e", "s">>)

\* The path is in the template directory or below it.
InTemplateDir(path) ==
  Len(path) > Len(templateDir) /\ SubSeq(path, 1, Len(templateDir)) = templateDir

\* fs.dirs: the directories; fs.files: the text of each regular file.
existsSync(path) == path \in fs.dirs \/ path \in DOMAIN fs.files

\* fs.readdirSync(dir): the names of the entries of dir, files and directories.
EntryNames(dir) ==
  {p[Len(p)] : p \in {q \in fs.dirs \cup DOMAIN fs.files :
                        Len(q) = Len(dir) + 1 /\ SubSeq(q, 1, Len(dir)) = dir}}

\* ------------------------------------------------------ tool invocations
\* The fields of every record are written in one fixed order throughout.
\* An environment variable: unset, set to "", or set to a value.
Unset == [supplied |-> FALSE, value |-> <<>>]

EnvValues == {Unset, [supplied |-> TRUE, value |-> <<>>],
              [supplied |-> TRUE, value |-> <<"x">>]}

OAuthVars == {"GMAIL_CLIENT_ID", "GMAIL_CLIENT_SECRET", "GMAIL_REDIRECT_URI",
              "GMAIL_REFRESH_TOKEN"}

SendTools == {"send_email", "send_introduction_email", "send_template_email"}

InboxTools == {"list_labels", "list_unread_emails", "get_email", "archive_email",
               "delete_email"}

ToolNames == SendTools \cup InboxTools \cup {"check_gmail_config", "list_email_templates"}

NoResponse == [kind |-> "none", text |-> "none", names |-> <<>>]

NoMail == [subject |-> <<>>, body |-> <<>>, given |-> FALSE]

\* What one invocation of the CallTool handler has done so far: its tool and
\* arguments, the files it
\* asked the filesystem about, the subject and body it parsed, the arguments
\* it called sendEmail with, whether it created a transporter or a provider
\* client, its calls of transporter.sendMail and of the provider, the error it
\* threw, its response, and the await it is suspended at (pc).
NewInvocation(name, args) ==
  [args |-> args, tool |-> name, pc |-> "running", fsTouched |-> {},
   parsed |-> NoMail, sendArgs |-> NoMail, transporter |-> FALSE, attempts |-> 0,
   client |-> FALSE, providerCalls |-> 0, thrown |-> "none",
   response |-> NoResponse]


\* return { content: [{ type: 'text', text }] }
Return(inv, text) ==
  [inv EXCEPT !.pc = "done",
              !.response = [kind |-> "result", text |-> text, names |-> <<>>]]

\* throw new Error(...)
Throw(inv, error) == [inv EXCEPT !.pc = "thrown", !.thrown = error]

\* The handler without its catch: what was thrown leaves it as it is.
CatchBoundaryMissing(inv) == inv

\* The catch of the CallTool handler: whatever was thrown leaves the handler
\* as McpError(ErrorCode.InternalError, ...).
CatchBoundary(inv) ==
  IF inv.pc = "thrown"
  THEN [inv EXCEPT !.pc = "done",
                   !.response = [kind |-> "McpError", text |-> "InternalError",
                                 names |-> <<>>]]
  ELSE inv

\* sendEmail, had it checked GMAIL_USER alone.
sendEmailUserOnly(inv, mail) ==
  LET i1 == [inv EXCEPT !.sendArgs = [subject |-> mail.subject, body |-> mail.body,
                                      given |-> TRUE]]
  IN IF ~Truthy(env.GMAIL_USER)
     THEN Throw(i1, "ConfigurationMissing")
     ELSE [i1 EXCEPT !.transporter = TRUE, !.attempts = @ + 1, !.pc = "sendMail"]

\* sendEmail up to its await of transporter.sendMail.
sendEmail(inv, mail) ==
  LET i1 == [inv EXCEPT !.sendArgs = [subject |-> mail.subject, body |-> mail.body,
                                      given |-> TRUE]]
  IN IF ~Truthy(env.GMAIL_USER) \/ ~Truthy(env.GMAIL_APP_PASSWORD)
     THEN Throw(i1, "ConfigurationMissing")
     ELSE [i1 EXCEPT !.transporter = TRUE, !.attempts = @ + 1, !.pc = "sendMail"]

\* The subject and body of send_introduction_email, kept as tags: the text is
\* a fixed letter around the name.
sendIntroductionEmail(inv) ==
  sendEmail(inv, [subject |-> <<"I", "n", "t", "r", "o">>, body |-> <<"D", "e", "a", "r">>])

\* checkGmailConfig up to its await of transporter.verify.
checkGmailConfig(inv) ==
  IF ~Truthy(env.GMAIL_USER) \/ ~Truthy(env.GMAIL_APP_PASSWORD)
  THEN Return(inv, "ConfigIncomplete")
  ELSE [inv EXCEPT !.transporter = TRUE, !.pc = "verify"]

\* hasOAuthEnv of lib/gmail.js: all four credentials are present.
hasOAuthEnv == env.oauth = OAuthVars

\* ensureOAuthAvailable, had it asked for the client id alone.
ensureOAuthAvailableClientIdOnly == "GMAIL_CLIENT_ID" \notin env.oauth

\* ensureOAuthAvailable: TRUE when the "not configured" result is returned.
ensureOAuthAvailable == ~hasOAuthEnv

\* listLabels, listUnreadEmails, getEmail, archiveEmail, deleteEmail up to the
\* await of the provider call.
inboxTool(inv) ==
  IF ensureOAuthAvailable THEN Return(inv, "OAuthMissing")
  ELSE [inv EXCEPT !.client = TRUE, !.providerCalls = @ + 1, !.pc = "provider"]

\* The filter of listEmailTemplates, had it left out the dot.
IsTxtNoDot(f) == EndsWith(f, <<"t", "x", "t">>)

IsTxt(f) == EndsWith(f, DotTxt)

\* f.replace(/\.txt$/, '')
StripTxt(f) == IF EndsWith(f, DotTxt) THEN SubSeq(f, 1, Len(f) - Len(DotTxt)) ELSE f

\* listEmailTemplates; order is the sequence fs.readdirSync returns.
listEmailTemplates(inv, order) ==
  LET i1 == [inv EXCEPT !.fsTouched = @ \cup {templateDir}]
  IN IF ~existsSync(templateDir) THEN Return(i1, "NoTemplatesDirectory")
     ELSE LET files == SelectSeq(order, IsTxt)
              names == [k \in 1..Len(files) |-> StripTxt(files[k])]
          IN [i1 EXCEPT !.pc = "done",
                        !.response = [kind |-> "result", text |-> "TemplateNames",
                                      names |-> names]]

\* `${template}.txt` joined to the template directory.
TemplatePath(template) == PathJoin(templateDir, template \o DotTxt)

\* sendTemplateEmail, had it gone on to send after a body that did not render.
sendTemplateEmailPartial(inv, args) ==
  LET filePath == TemplatePath(args.template)
      i1 == [inv EXCEPT !.fsTouched = @ \cup {filePath}]
  IN IF ~existsSync(filePath) THEN Return(i1, "TemplateNotFound")
     ELSE IF filePath \notin DOMAIN fs.files THEN Throw(i1, "ReadError")
     ELSE
       LET p == ParseTemplate(fs.files[filePath], args.fallbackSubject)
           i2 == [i1 EXCEPT !.parsed = [subject |-> p.subject, body |-> p.body,
                                        given |-> TRUE]]
           renderedSubject == MustacheRender(p.subject, args.variables)
           renderedBody == MustacheRender(p.body, args.variables)
       IN IF ~renderedSubject.ok
          THEN Throw(i2, "TemplateRenderError")
          ELSE sendEmail(i2, [subject |-> renderedSubject.out,
                              body |-> renderedBody.out])

\* sendTemplateEmail up to the await inside sendEmail.
sendTemplateEmail(inv, args) ==
  LET filePath == TemplatePath(args.template)
      i1 == [inv EXCEPT !.fsTouched = @ \cup {filePath}]
  IN IF ~existsSync(filePath) THEN Return(i1, "TemplateNotFound")
     ELSE IF filePath \notin DOMAIN fs.files THEN Throw(i1, "ReadError")
     ELSE
       LET p == ParseTemplate(fs.files[filePath], args.fallbackSubject)
           i2 == [i1 EXCEPT !.parsed = [subject |-> p.subject, body |-> p.body,
                                        given |-> TRUE]]
           renderedSubject == MustacheRender(p.subject, args.variables)
           renderedBody == MustacheRender(p.body, args.variables)
       IN IF ~renderedSubject.ok \/ ~renderedBody.ok
          THEN Throw(i2, "TemplateRenderError")
          ELSE sendEmail(i2, [subject |-> renderedSubject.out,
                              body |-> renderedBody.out])

\* The switch of the CallTool handler inside its try.
Dispatch(name, args, order) ==
  LET inv == NewInvocation(name, args)
  IN CASE name = "send_email" -> sendEmail(inv, args.mail)
       [] name = "send_introduction_email" -> sendIntroductionEmail(inv)
       [] name = "check_gmail_config" -> checkGmailConfig(inv)
       [] name \in InboxTools -> inboxTool(inv)
       [] name = "list_email_templates" -> listEmailTemplates(inv, order)
       [] name = "send_template_email" -> sendTemplateEmail(inv, args)
       [] OTHER -> Throw(inv, "MethodNotFound")

\* The CallTool handler up to its first await.
CallTool(name, args, order) == CatchBoundary(Dispatch(name, args, order))

\* --------------------------------------------------------------- inputs
Placeholder == <<"{", "{", "n", "}", "}">>

\* The variables argument: no variables, or a value for n.
Views == {[k \in {} |-> <<>>], [k \in {<<"n">>} |-> <<"b">>],
          [k \in {<<"n">>} |-> <<"<">>]}

Fallbacks == {NoFallback, [supplied |-> TRUE, value |-> <<>>],
              [supplied |-> TRUE, value |-> <<"F">>]}

\* What template texts are concatenated from.
Pieces == {Keyword, <<" ">>, <<"\n">>, <<"a">>, Placeholder, OpenTag}

RECURSIVE Texts(_)
Texts(n) ==
  IF n = 0 THEN {<<>>}
  ELSE LET T == Texts(n - 1) IN T \cup {t \o p : t \in T, p \in Pieces}

Welcome == <<"w", "e", "l", "c", "o", "m", "e">>

Followup == <<"f", "o", "l", "l", "o", "w", "u", "p">>

Broken == <<"b", "r", "o", "k", "e", "n">>

Ghost == <<"g", "h", "o", "s", "t">>

Traversal == <<".", ".", "/", "s", "e", "c", "r", "e", "t">>

TemplateNames == {Welcome, Broken, Ghost, Traversal}

\* "Subject: Hi {{n}}\nYo {{n}}"
WelcomeText ==
  Keyword \o <<" ", "H", "i", " ">> \o Placeholder \o <<"\n", "Y", "o", " ">> \o Placeholder

\* "a{{": a tag that is never closed.
BrokenText == <<"a">> \o OpenTag

SecretText == <<"k", "e", "y">>

\* The files of the server's own run: two templates, and secret.txt beside the
\* template directory.
ServerFs ==
  [dirs |-> {ScriptDir, templateDir},
   files |-> [q \in {TemplatePath(Welcome), TemplatePath(Broken),
                     PathJoin(ScriptDir, <<"s", "e", "c", "r", "e", "t">> \o DotTxt)} |->
                IF q = TemplatePath(Welcome) THEN WelcomeText
                ELSE IF q = TemplatePath(Broken) THEN BrokenText ELSE SecretText]]

NoArgs == [fallbackSubject |-> NoFallback, template |-> <<>>, mail |-> NoMail,
           variables |-> [k \in {} |-> <<>>]]

NoInvocation == NewInvocation("none", NoArgs)

\* The arguments a caller passes to a tool of the server (SpecTemplate varies
\* the variables and the fallback subject).
ArgsOf(name) ==
  IF name = "send_email"
  THEN {[NoArgs EXCEPT !.mail = [subject |-> <<"s">>, body |-> <<"b">>, given |-> TRUE]]}
  ELSE IF name = "send_template_email"
  THEN {[NoArgs EXCEPT !.template = t, !.variables = [k \in {<<"n">>} |-> <<"b">>]] :
          t \in TemplateNames}
  ELSE {NoArgs}

\* The orders in which fs.readdirSync may enumerate a set of names.
Orderings(S) ==
  {o \in [1..Cardinality(S) -> S] : \A a, b \in 1..Cardinality(S) : o[a] = o[b] => a = b}

OrdersOf(name) ==
  IF name = "list_email_templates" /\ existsSync(templateDir)
  THEN Orderings(EntryNames(templateDir)) ELSE {<<>>}

\* -------------------------------------------------------------- actions
\* Every invocation the model holds: the suspended ones and the last completed.
Invocations == BagToSet(pending) \cup {last}

\* An invocation moves on to r: it stays suspended, or completes.
Resume(inv, r) ==
  /\ pending' = (pending (-) SetToBag({inv}))
                (+) (IF r.pc = "done" THEN EmptyBag ELSE SetToBag({r}))
  /\ last' = IF r.pc = "done" THEN r ELSE last
  /\ UNCHANGED <<env, fs>>

\* A CallTool request arrives and its handler runs to its first await.
Call(name, args, order) ==
  /\ BagCardinality(pending) < MaxPending
  /\ LET r == CallTool(name, args, order)
     IN /\ pending' = IF r.pc = "done" THEN pending ELSE pending (+) SetToBag({r})
        /\ last' = IF r.pc = "done" THEN r ELSE last
  /\ UNCHANGED <<env, fs>>

\* await transporter.sendMail(mailOptions) resolves: sendEmail returns.
afterSendMailResolves(inv) == Return(inv, "EmailSent")

\* A rejected sendMail, had sendEmail called the gateway again.
afterSendMailRejectsRetry(inv) == [inv EXCEPT !.attempts = @ + 1]

\* await transporter.sendMail(mailOptions) rejects: the error leaves sendEmail
\* and reaches the catch of the handler.
afterSendMailRejects(inv) == CatchBoundary(Throw(inv, "DeliveryFailure"))

sendMailResolves(inv) ==
  /\ inv.pc = "sendMail"
  /\ Resume(inv, afterSendMailResolves(inv))

sendMailRejects(inv) ==
  /\ inv.pc = "sendMail"
  /\ Resume(inv, afterSendMailRejects(inv))

\* The provider call of an inbox tool resolves or rejects.
providerResolves(inv) ==
  /\ inv.pc = "provider"
  /\ Resume(inv, Return(inv, "ProviderData"))

providerRejects(inv) ==
  /\ inv.pc = "provider"
  /\ Resume(inv, CatchBoundary(Throw(inv, "ProviderFailure")))

\* await transporter.verify() of checkGmailConfig resolves, or rejects into
\* the catch of checkGmailConfig itself.
verifyResolves(inv) ==
  /\ inv.pc = "verify"
  /\ Resume(inv, Return(inv, "ConfigValid"))

verifyRejects(inv) ==
  /\ inv.pc = "verify"
  /\ Resume(inv, Return(inv, "ConfigError"))

\* ------------------------------------------------------- specifications
\* The server: any environment, the server's files, any sequence of calls.
Init ==
  /\ env \in [GMAIL_USER : EnvValues, GMAIL_APP_PASSWORD : EnvValues,
              oauth : SUBSET OAuthVars]
  /\ fs = ServerFs
  /\ pending = EmptyBag
  /\ last = NoInvocation

Next ==
  \/ \E name \in ToolNames \cup {"unknown_tool"} :
       \E args \in ArgsOf(name), order \in OrdersOf(name) : Call(name, args, order)
  \/ \E inv \in BagToSet(pending) : sendMailResolves(inv)
  \/ \E inv \in BagToSet(pending) : sendMailRejects(inv)
  \/ \E inv \in BagToSet(pending) : providerResolves(inv)
  \/ \E inv \in BagToSet(pending) : providerRejects(inv)
  \/ \E inv \in BagToSet(pending) : verifyResolves(inv)
  \/ \E inv \in BagToSet(pending) : verifyRejects(inv)

Spec == Init /\ [][Next]_vars

Configured ==
  [GMAIL_USER |-> [supplied |-> TRUE, value |-> <<"x">>],
   GMAIL_APP_PASSWORD |-> [supplied |-> TRUE, value |-> <<"x">>],
   oauth |-> OAuthVars]

\* The template pipeline: welcome.txt holds any text of up to MaxPieces pieces,
\* and send_template_email is called once on it.
InitTemplate ==
  /\ env = Configured
  /\ \E raw \in Texts(MaxPieces) :
       fs = [dirs |-> {ScriptDir, templateDir},
             files |-> [q \in {TemplatePath(Welcome)} |-> raw]]
  /\ pending = EmptyBag
  /\ last = NoInvocation

NextTemplate ==
  /\ pending = EmptyBag
  /\ last = NoInvocation
  /\ \E v \in Views, f \in Fallbacks :
       Call("send_template_email",
            [NoArgs EXCEPT !.template = Welcome, !.variables = v,
                           !.fallbackSubject = f], <<>>)

SpecTemplate == InitTemplate /\ [][NextTemplate]_vars

\* The entries a template directory may hold: five files and a directory.
EntryFiles ==
  {Welcome \o DotTxt, Followup \o DotTxt, <<"n", "o", "t", "e", "s", ".", "m", "d">>,
   <<"t", "x", "t">>, DotTxt}

EntryDirs == {<<"o", "l", "d", ".", "t", "x", "t">>}

\* The template directory is missing, or holds any of the entries;
\* list_email_templates is called once.
InitList ==
  /\ env = Configured
  /\ \E present \in BOOLEAN, F \in SUBSET EntryFiles, D \in SUBSET EntryDirs :
       /\ ~present => F = {} /\ D = {}
       /\ fs = [dirs |-> {ScriptDir} \cup (IF present THEN {templateDir} ELSE {})
                          \cup {Append(templateDir, d) : d \in D},
                files |-> [q \in {Append(templateDir, f) : f \in F} |-> <<>>]]
  /\ pending = EmptyBag
  /\ last = NoInvocation

NextList ==
  /\ last = NoInvocation
  /\ \E order \in OrdersOf("list_email_templates") :
       Call("list_email_templates", NoArgs, order)

SpecList == InitList /\ [][NextList]_vars

\* --------------------------------------------------------------- claims
\* The send_template_email invocations the model holds.
TemplateCalls == {inv \in Invocations : inv.tool = "send_template_email"}

\* The text of the template file an invocation names.
RawOf(inv) == fs.files[TemplatePath(inv.args.template)]

\* Where the lines of raw that begin with "Subject:" start.
HeaderStarts(raw) ==
  {i \in 1..Len(raw) : (i = 1 \/ raw[i - 1] = "\n") /\ StartsWithAt(raw, i, Keyword)}

HasHeader(raw) == HeaderStarts(raw) # {}

\* X of the first line "Subject: X": what follows the keyword on that line.
HeaderText(raw) ==
  LET i == Min(HeaderStarts(raw)) + Len(Keyword)
  IN SubSeq(raw, i, LineEnd(raw, i) - 1)

\* raw without the characters of its first "Subject:" line.
WithoutHeader(raw) ==
  LET i == Min(HeaderStarts(raw))
  IN SubSeq(raw, 1, i - 1) \o SubSeq(raw, LineEnd(raw, i), Len(raw))

\* The subject the precedence of the specification asks for, before rendering.
SubjectByPrecedence(raw, fallbackSubject) ==
  IF HasHeader(raw) THEN Trim(HeaderText(raw))
  ELSE IF Truthy(fallbackSubject) THEN fallbackSubject.value ELSE NoSubject

\* C1 (as claimed): the subject send_template_email hands to sendEmail is never
\* the empty string, and the subject it renders is the one of the template's
\* "Subject:" line if there is one, else the fallbackSubject argument if
\* supplied, else "No Subject".
C1_SubjectNeverEmpty ==
  \A inv \in TemplateCalls :
    inv.sendArgs.given =>
      /\ inv.sendArgs.subject # <<>>
      /\ inv.parsed.subject = SubjectByPrecedence(RawOf(inv), inv.args.fallbackSubject)

\* The template name holds a path separator or a parent-directory segment.
UnsafeName(template) ==
  \/ \E i \in 1..Len(template) : template[i] = Slash
  \/ template = <<".", ".">>

\* C2 (as claimed): a send_template_email call whose template name holds a path
\* separator or a parent-directory segment fails with InvalidTemplateName
\* before any filesystem access: it asks about no path, least of all one
\* outside the template directory, and it delivers nothing.
C2_TraversalRejected ==
  \A inv \in TemplateCalls :
    UnsafeName(inv.args.template) =>
      /\ inv.thrown = "InvalidTemplateName"
      /\ \A q \in inv.fsTouched : InTemplateDir(q)
      /\ inv.attempts = 0

\* C3 (as claimed): when the template text has a line "Subject: X", the parsed
\* subject is the trimmed X of the first such line, and the parsed body is the
\* text with exactly that line removed, then trimmed; the other lines, later
\* "Subject:" lines among them, are as they were.
C3_FirstSubjectLineExtracted ==
  \A inv \in TemplateCalls :
    inv.parsed.given /\ HasHeader(RawOf(inv)) =>
      /\ inv.parsed.subject = Trim(HeaderText(RawOf(inv)))
      /\ inv.parsed.body = Trim(WithoutHeader(RawOf(inv)))

\* The text holds no Mustache tag.
NoTags(s) == IndexOf(s, OpenTag) = 0

\* C4: when no line of the template text begins with "Subject:", the body
\* send_template_email renders is the text itself, not trimmed, and the subject
\* it renders is the fallbackSubject if one is supplied (a non-empty string),
\* else "No Subject"; for a text without tags, the message handed to sendEmail
\* has exactly that subject and the original text as its body.
C4_NoSubjectLineKeepsText ==
  \A inv \in TemplateCalls :
    inv.parsed.given /\ ~HasHeader(RawOf(inv)) =>
      LET subject == IF Truthy(inv.args.fallbackSubject)
                     THEN inv.args.fallbackSubject.value ELSE NoSubject
      IN /\ inv.parsed.body = RawOf(inv)
         /\ inv.parsed.subject = subject
         /\ NoTags(RawOf(inv)) =>
              /\ inv.sendArgs.given
              /\ inv.sendArgs.subject = subject
              /\ inv.sendArgs.body = RawOf(inv)

\* C4's case: a text without a subject line that begins with white space is
\* sent untrimmed under the fallback subject "F".
C4_Witness ==
  \E inv \in TemplateCalls :
    /\ ~HasHeader(RawOf(inv))
    /\ RawOf(inv) = <<" ", "a", "\n">>
    /\ inv.sendArgs = [subject |-> <<"F">>, body |-> <<" ", "a", "\n">>, given |-> TRUE]

\* C5: an inbox tool called while any of the four OAuth credentials is absent
\* returns the "not configured" result, creates no provider client and makes
\* no provider call; a provider call is made only with all four present.
C5_InboxNeedsOAuth ==
  \A inv \in Invocations :
    inv.tool \in InboxTools =>
      /\ env.oauth # OAuthVars =>
           /\ inv.pc = "done"
           /\ inv.response.kind = "result" /\ inv.response.text = "OAuthMissing"
           /\ ~inv.client
           /\ inv.providerCalls = 0
      /\ inv.client \/ inv.providerCalls > 0 => env.oauth = OAuthVars

\* C5's case: get_email answered "not configured" with only the refresh token
\* missing.
C5_Witness ==
  /\ last.tool = "get_email"
  /\ last.response.text = "OAuthMissing"
  /\ env.oauth = OAuthVars \ {"GMAIL_REFRESH_TOKEN"}

\* GMAIL_USER or GMAIL_APP_PASSWORD is not set.
CredentialAbsent == ~env.GMAIL_USER.supplied \/ ~env.GMAIL_APP_PASSWORD.supplied

\* GMAIL_USER or GMAIL_APP_PASSWORD is not set, or is set to "".
CredentialMissing == ~Truthy(env.GMAIL_USER) \/ ~Truthy(env.GMAIL_APP_PASSWORD)

\* C6 (as claimed): a sending tool called while GMAIL_USER or
\* GMAIL_APP_PASSWORD is absent surfaces the configuration-missing failure,
\* creates no transporter and never calls the delivery gateway.
C6_MissingConfigSurfaced ==
  \A inv \in Invocations :
    inv.tool \in SendTools /\ CredentialAbsent =>
      /\ inv.thrown = "ConfigurationMissing"
      /\ ~inv.transporter
      /\ inv.attempts = 0

\* C6 (amended): while GMAIL_USER or GMAIL_APP_PASSWORD is absent or empty, a
\* sending tool creates no transporter, never calls the delivery gateway and
\* never reports a sent email; send_email and send_introduction_email, and
\* send_template_email once its template was found and rendered, surface the
\* configuration-missing failure (a send_template_email call whose template is
\* not found or does not render surfaces that instead). A transporter is
\* created and the gateway called only with both credentials present.
C6_NoDeliveryWithoutConfig ==
  \A inv \in Invocations :
    inv.tool \in SendTools =>
      /\ CredentialMissing =>
           /\ inv.pc = "done"
           /\ ~inv.transporter
           /\ inv.attempts = 0
           /\ inv.response.text # "EmailSent"
           /\ inv.sendArgs.given <=> inv.thrown = "ConfigurationMissing"
           /\ inv.tool # "send_template_email" => inv.sendArgs.given
           /\ inv.thrown = "ConfigurationMissing" => inv.response.kind = "McpError"
      /\ inv.transporter \/ inv.attempts > 0 => ~CredentialMissing

\* C6's case: send_template_email found and rendered its template and then
\* failed for the missing app password.
C6_Witness ==
  /\ last.tool = "send_template_email"
  /\ last.parsed.given
  /\ last.thrown = "ConfigurationMissing"
  /\ env.GMAIL_APP_PASSWORD = Unset
  /\ Truthy(env.GMAIL_USER)

\* The lookup of the template of a send_template_email call fails.
LookupFails(inv) ==
  inv.tool = "send_template_email" /\ ~existsSync(TemplatePath(inv.args.template))

\* C7 (as claimed): every failure of an invocation, a failed template lookup
\* included, ends as a failure response (an McpError), never as a result.
C7_FailuresBecomeErrors ==
  \A inv \in Invocations :
    inv.thrown # "none" \/ LookupFails(inv) =>
      inv.pc = "done" /\ inv.response.kind = "McpError"

\* C7 (amended): every error thrown while an invocation is handled (missing
\* send configuration, render failure, delivery failure, provider failure,
\* unknown tool name) is caught by the handler and leaves it as an McpError
\* with code InternalError, and no such invocation reports success; a failed
\* template lookup is not thrown: it ends as an ordinary text result,
\* "Template not found", with nothing delivered. Every completed invocation
\* has a response.
C7_ThrownFailuresConverted ==
  \A inv \in Invocations :
    /\ inv.pc # "thrown"
    /\ inv.thrown # "none" =>
         /\ inv.pc = "done"
         /\ inv.response.kind = "McpError" /\ inv.response.text = "InternalError"
    /\ inv.response.kind = "McpError" => inv.thrown # "none"
    /\ LookupFails(inv) =>
         /\ inv.pc = "done"
         /\ inv.response.kind = "result" /\ inv.response.text = "TemplateNotFound"
         /\ inv.attempts = 0
    /\ inv.pc = "done" /\ inv.tool # "none" => inv.response.kind # "none"

\* C7's case: an unknown tool name was answered with an McpError.
C7_Witness ==
  /\ last.tool = "unknown_tool"
  /\ last.thrown = "MethodNotFound"
  /\ last.response.kind = "McpError"

\* The names list_email_templates returned.
ListedNames == {last.response.names[k] : k \in 1..Len(last.response.names)}

\* Every name n with an entry n.txt in the template directory.
NamesWithTxtEntry ==
  {n \in UNION {{SubSeq(e, 1, k) : k \in 0..Len(e)} : e \in EntryNames(templateDir)} :
     n \o DotTxt \in EntryNames(templateDir)}

\* C8: called on a template directory that exists, list_email_templates
\* returns, in some order and each once, exactly the names n that have an entry
\* n.txt in the directory: nothing for an empty directory, and no entry
\* without the .txt extension.
C8_ListsTxtEntries ==
  last.tool = "list_email_templates" /\ existsSync(templateDir) =>
    /\ last.response.kind = "result"
    /\ last.response.text = "TemplateNames"
    /\ ListedNames = NamesWithTxtEntry
    /\ Len(last.response.names) = Cardinality(NamesWithTxtEntry)

\* C8's case: the directory holds welcome.txt, followup.txt and notes.md, and
\* the tool returned welcome and followup.
C8_Witness ==
  /\ last.tool = "list_email_templates"
  /\ EntryNames(templateDir)
       = {Welcome \o DotTxt, Followup \o DotTxt, <<"n", "o", "t", "e", "s", ".", "m", "d">>}
  /\ ListedNames = {Welcome, Followup}

\* C9: send_template_email calls sendEmail, and with it the delivery gateway,
\* only when the subject and the body both rendered, and with the rendered
\* texts; when either does not render the invocation throws and nothing is
\* handed over or sent.
C9_DeliveryOnlyAfterRender ==
  \A inv \in TemplateCalls :
    inv.parsed.given =>
      LET subject == MustacheRender(inv.parsed.subject, inv.args.variables)
          body == MustacheRender(inv.parsed.body, inv.args.variables)
      IN /\ inv.sendArgs.given \/ inv.attempts > 0 =>
              /\ subject.ok /\ body.ok
              /\ inv.sendArgs.subject = subject.out
              /\ inv.sendArgs.body = body.out
         /\ ~subject.ok \/ ~body.ok =>
              /\ inv.thrown = "TemplateRenderError"
              /\ inv.response.kind = "McpError"
              /\ ~inv.sendArgs.given
              /\ inv.attempts = 0

\* C9's case: the subject rendered, the body did not, and nothing was sent.
C9_Witness ==
  \E inv \in TemplateCalls :
    /\ inv.parsed.given
    /\ inv.parsed.subject # <<>>
    /\ MustacheRender(inv.parsed.subject, inv.args.variables).ok
    /\ ~MustacheRender(inv.parsed.body, inv.args.variables).ok
    /\ inv.thrown = "TemplateRenderError"
    /\ inv.attempts = 0

\* C10: an invocation calls the delivery gateway at most once; when the
\* gateway fails the invocation is over, with one attempt made and the failure
\* reported as its response.
C10_AtMostOneAttempt ==
  \A inv \in Invocations :
    /\ inv.attempts <= 1
    /\ inv.thrown = "DeliveryFailure" =>
         /\ inv.tool \in SendTools
         /\ inv.pc = "done"
         /\ inv.attempts = 1
         /\ inv.response.kind = "McpError"

\* C10's case: the gateway failed a send_introduction_email call once.
C10_Witness ==
  /\ last.tool = "send_introduction_email"
  /\ last.thrown = "DeliveryFailure"
  /\ last.attempts = 1

====
